---- MODULE Spec2Model ----
(***************************************************************************)
(* A model of simulator.py: the event scheduler (EventQueue), the          *)
(* admission controls, the FIFO queue discipline, the request / stage      *)
(* pipeline, the virtual-time consumption tracker and the Resource, driven *)
(* by the loop `q.advance()()`.                                            *)
(*                                                                         *)
(* Times, quantities and virtual times are Python floats in the source;    *)
(* here they are exact rationals <<n, d>> in lowest terms with d > 0, so   *)
(* every equality below is an equality of exact values.                    *)
(*                                                                         *)
(* Every handler is an operator from a program state s (a record of the    *)
(* program's objects) to the SET of states it can end in: one per outcome  *)
(* of the random draws that EventQueue.schedule makes while it runs.       *)
(***************************************************************************)
EXTENDS Integers, Sequences, FiniteSets, TLC

(***************************************************************************)
(* Bounds of the model.                                                    *)
(***************************************************************************)
\* the run stops scheduling once q.i has reached MaxI
MaxI == 18

(***************************************************************************)
(* Exact rational arithmetic.                                              *)
(***************************************************************************)
Abs(n) == IF n < 0 THEN -n ELSE n

RECURSIVE GCD(_, _)
GCD(a, b) == IF b = 0 THEN a ELSE GCD(b, a % b)

Rat(n, d) ==
  LET g == GCD(Abs(n), Abs(d))
      sg == IF d < 0 THEN -1 ELSE 1
  IN  <<sg * (n \div g), sg * (d \div g)>>

Zero == <<0, 1>>
RAdd(a, b) == Rat(a[1] * b[2] + b[1] * a[2], a[2] * b[2])
RSub(a, b) == Rat(a[1] * b[2] - b[1] * a[2], a[2] * b[2])
RMul(a, b) == Rat(a[1] * b[1], a[2] * b[2])
RDiv(a, b) == Rat(a[1] * b[2], a[2] * b[1])
RLt(a, b) == a[1] * b[2] < b[1] * a[2]
RLe(a, b) == a[1] * b[2] <= b[1] * a[2]
\* an int as a float
Num(n) == <<n, 1>>

\* the value of an attribute that is still None
None == <<>>

(***************************************************************************)
(* class Priority.                                                         *)
(***************************************************************************)
RESOURCE_EXEC_COMPLETE == 0
REQUEST_COMPLETE == 1
ADMIT_NEXT == 10
RESOURCE_EXEC_NEXT == 11

(***************************************************************************)
(* EventQueue.schedule draws random.randint(1,8) and adds 0.02 times the   *)
(* draw to the delay.  JitterDraws are the draws the model follows: the     *)
(* least and the greatest of randint's range.                              *)
(***************************************************************************)
JitterLo == 1
JitterHi == 8
JitterDraws == {JitterLo, JitterHi}
JitterStep == <<1, 50>>

(***************************************************************************)
(* The set-up code (module level of simulator.py): the resources, the      *)
(* admission control and the closed-loop workloads of one run.  A stage of *)
(* a workload's RequestGenerator is <<resource, amount>>, as built by      *)
(* RequestGenerator.exactly.                                               *)
(***************************************************************************)
Resources == {"cpu", "gpu"}

Setup(admission, limit, capacity, concurrency, workloads) ==
  [admission |-> admission, limit |-> limit, capacity |-> capacity,
   concurrency |-> concurrency, workloads |-> workloads]

Workload(stages, concurrency) == [stages |-> stages, concurrency |-> concurrency]

Setups ==
  { \* one resource of capacity 100 and concurrency 1, no admission control,
    \* two requests of one stage of 50
    Setup("NoAdmissionControl", 0, [r \in Resources |-> 100], [r \in Resources |-> 1],
          <<Workload(<< <<"cpu", 50>> >>, 2)>>),
    \* the same requests on a resource that serves two stages at a time
    Setup("NoAdmissionControl", 0, [r \in Resources |-> 100], [r \in Resources |-> 2],
          <<Workload(<< <<"cpu", 50>> >>, 2)>>),
    \* admission limit 1, three requests of one zero-quantity stage
    Setup("FixedConcurrencyAdmissionControl", 1, [r \in Resources |-> 100],
          [r \in Resources |-> 1], <<Workload(<< <<"cpu", 0>> >>, 3)>>),
    \* two workloads of different sizes sharing a resource of concurrency 2
    Setup("NoAdmissionControl", 0, [r \in Resources |-> 100], [r \in Resources |-> 2],
          <<Workload(<< <<"cpu", 0>> >>, 1), Workload(<< <<"cpu", 5>> >>, 1)>>),
    \* admission limit 2, two-stage requests over two resources
    Setup("FixedConcurrencyAdmissionControl", 2, [r \in Resources |-> 100],
          [r \in Resources |-> IF r = "cpu" THEN 2 ELSE 1],
          <<Workload(<< <<"cpu", 1>>, <<"gpu", 2>> >>, 1),
            Workload(<< <<"cpu", 3>> >>, 2)>>),
    \* an admission control constructed with concurrency 0
    Setup("FixedConcurrencyAdmissionControl", 0, [r \in Resources |-> 100],
          [r \in Resources |-> 1], <<Workload(<< <<"cpu", 0>> >>, 1)>>) }

(***************************************************************************)
(* The program's state.                                                    *)
(***************************************************************************)
VARIABLES
  cfg,               \* the set-up of this run (fixed during the run)
  q,                 \* the EventQueue q: [events, i, t]
  admissioncontrol,  \* [count, queue]: the admission control and its FIFOQueue
  requests,          \* the Requests, by request_id + 1, each with its stages
  resources,         \* per Resource: count, its FIFOQueue, its tracker's fields
  err,               \* "" while the program runs, else the exception that ended it
  log,               \* history: the admissions, completions and schedule calls so
                     \* far, in order
  popped             \* history: the event the last q.advance() returned, q.i at
                     \* that call, and whether the event was a superseded completion

vars == <<cfg, q, admissioncontrol, requests, resources, err, log, popped>>

\* the program's objects as one record, for the handlers below
State ==
  [cfg |-> cfg, q |-> q, admissioncontrol |-> admissioncontrol,
   requests |-> requests, resources |-> resources, err |-> err, log |-> log]

(***************************************************************************)
(* EventQueue.                                                             *)
(***************************************************************************)
\* a scheduled callback: a bound method, or the partial of
\* _check_completions_callback with its iteration and callback_vt
Callback(kind, r, iteration, callback_vt) ==
  [kind |-> kind, r |-> r, iteration |-> iteration, callback_vt |-> callback_vt]

Event(t, priority, i, callback) ==
  [t |-> t, priority |-> priority, i |-> i, callback |-> callback]

\* TupleLess with the priority left out of the tuple
TupleLessNoPriority(a, b) ==
  \/ RLt(a.t, b.t)
  \/ a.t = b.t /\ a.i < b.i

\* Python's order of the tuples (t, priority, i, callback) that heapq keeps:
\* i is unique, so the callback is never compared
TupleLess(a, b) ==
  \/ RLt(a.t, b.t)
  \/ a.t = b.t /\ a.priority < b.priority
  \/ a.t = b.t /\ a.priority = b.priority /\ a.i < b.i

\* heapq.heappop: the smallest tuple of the heap
HeapTop(events) == CHOOSE e \in events : \A f \in events \ {e} : TupleLess(e, f)

Jitter(k) == RMul(Num(k), JitterStep)

\* EventQueue.schedule: one outcome per draw; log keeps the call's
\* i, clock, delta_t and priority
Schedule(s, delta_t, priority, callback) ==
  IF s.q.i >= MaxI THEN {}
  ELSE { [s EXCEPT !.q.events = @ \cup {Event(RAdd(s.q.t, RAdd(delta_t, Jitter(k))),
                                              priority, s.q.i, callback)},
                   !.q.i = @ + 1,
                   !.log = Append(@, <<"Schedule", s.q.i, s.q.t, delta_t, priority>>)] :
         k \in JitterDraws }

\* EventQueue.advance: pop the top of the heap and set the clock to its time
Advance(s) ==
  LET e == HeapTop(s.q.events)
  IN  [s EXCEPT !.q.events = @ \ {e}, !.q.t = e.t]

now(s) == s.q.t

(***************************************************************************)
(* FIFOQueue: pending is the deque.                                        *)
(***************************************************************************)
FIFOIsEmpty(pending) == Len(pending) = 0

FIFOEnqueue(pending, item) == Append(pending, item)

\* a dequeue that pops from the right end of the deque
FIFODequeueRight(pending) ==
  [item |-> pending[Len(pending)], pending |-> SubSeq(pending, 1, Len(pending) - 1)]

\* FIFOQueue.dequeue: the item that popleft returns, and the deque it leaves
FIFODequeue(pending) == [item |-> Head(pending), pending |-> Tail(pending)]

(***************************************************************************)
(* Resource.enqueue and Resource._schedule_exec_next.  A stage is named    *)
(* <<id, ix>>: stage ix of the request with request_id id - 1.             *)
(***************************************************************************)
\* _schedule_exec_next that schedules nothing
ScheduleExecNextNever(s, r) == {s}

\* Resource._schedule_exec_next
ScheduleExecNext(s, r) ==
  IF s.resources[r].count < s.cfg.concurrency[r]
  THEN Schedule(s, Zero, RESOURCE_EXEC_NEXT, Callback("_exec_next", r, 0, None))
  ELSE {s}

\* Resource.enqueue that schedules no _exec_next
ResourceEnqueueNoSchedule(s, r, st) ==
  {[s EXCEPT !.requests[st[1]].stages[st[2]].enqueue = now(s),
             !.resources[r].queue = FIFOEnqueue(@, st)]}

\* Resource.enqueue
ResourceEnqueue(s, r, st) ==
  ScheduleExecNext([s EXCEPT !.requests[st[1]].stages[st[2]].enqueue = now(s),
                             !.resources[r].queue = FIFOEnqueue(@, st)], r)

(***************************************************************************)
(* Request, ResourceStage, the admission controls, ClosedLoopWorkload.     *)
(***************************************************************************)
\* ResourceStage.__init__; idle, addIteration, fireIteration and fired are history
ResourceStage(resource, quantity) ==
  [resource |-> resource, quantity |-> Num(quantity),
   enqueue |-> None, dequeue |-> None, completion |-> None,
   idle |-> FALSE, addIteration |-> 0, fireIteration |-> 0, fired |-> 0]

\* Request.__init__ on RequestGenerator.make_request; done counts completed_stages,
\* so pending_stages[0] is stages[done + 1]; admitted is history
Request(s, w) ==
  [workload |-> w,
   stages |-> [k \in 1..Len(s.cfg.workloads[w].stages) |->
                 ResourceStage(s.cfg.workloads[w].stages[k][1],
                               s.cfg.workloads[w].stages[k][2])],
   done |-> 0, arrival |-> None, completion |-> None, admitted |-> None]

\* Request.execute_next_stage, ResourceStage.execute
ExecuteNextStage(s, id) ==
  LET ix == s.requests[id].done + 1
  IN  ResourceEnqueue(s, s.requests[id].stages[ix].resource, <<id, ix>>)

\* Request.admitted
Admitted(s, id) ==
  ExecuteNextStage([s EXCEPT !.requests[id].admitted = now(s),
                             !.log = Append(@, <<"Admit", id>>)], id)

\* FixedConcurrencyAdmissionControl._schedule_admission
ScheduleAdmission(s) ==
  Schedule(s, Zero, ADMIT_NEXT, Callback("_admit_if_possible", "", 0, None))

\* NoAdmissionControl.enqueue / FixedConcurrencyAdmissionControl.enqueue
AdmissionEnqueue(s, id) ==
  IF s.cfg.admission = "NoAdmissionControl"
  THEN Admitted(s, id)
  ELSE ScheduleAdmission([s EXCEPT !.admissioncontrol.queue = FIFOEnqueue(@, id)])

\* NoAdmissionControl.completed / FixedConcurrencyAdmissionControl.completed;
\* log keeps the call
AdmissionCompleted(s, id) ==
  LET s1 == [s EXCEPT !.log = Append(@, <<"Completed", id>>)]
  IN  IF s.cfg.admission = "NoAdmissionControl"
      THEN {s1}
      ELSE ScheduleAdmission([s1 EXCEPT !.admissioncontrol.count = @ - 1])

\* Request.begin
Begin(s, id) == AdmissionEnqueue([s EXCEPT !.requests[id].arrival = now(s)], id)

\* ClosedLoopWorkload.start_next_request
StartNextRequest(s, w) ==
  Begin([s EXCEPT !.requests = Append(@, Request(s, w))], Len(s.requests) + 1)

\* Request.complete with a request_completed that starts no request
CompleteNoRestart(s, id) ==
  {[s EXCEPT !.requests[id].completion = now(s),
             !.log = Append(@, <<"Finish", id>>)]}

\* Request.complete, ClosedLoopWorkload.request_completed
Complete(s, id) ==
  StartNextRequest([s EXCEPT !.requests[id].completion = now(s),
                             !.log = Append(@, <<"Finish", id>>)],
                   s.requests[id].workload)

\* Request.stage_completed that takes the request for finished after any stage
StageCompletedAfterFirst(s, id) ==
  LET s1 == [s EXCEPT !.requests[id].done = @ + 1]
  IN  UNION { Complete(s2, id) : s2 \in AdmissionCompleted(s1, id) }

\* Request.stage_completed
StageCompleted(s, id) ==
  LET s1 == [s EXCEPT !.requests[id].done = @ + 1]
  IN  IF s1.requests[id].done = Len(s1.requests[id].stages)
      THEN UNION { Complete(s2, id) : s2 \in AdmissionCompleted(s1, id) }
      ELSE ExecuteNextStage(s1, id)

\* _on_execution_completed that leaves count as it is
OnExecutionCompletedKeepsCount(s, r, st) ==
  LET s1 == [s EXCEPT !.requests[st[1]].stages[st[2]].completion = now(s),
                      !.requests[st[1]].stages[st[2]].fired = @ + 1,
                      !.requests[st[1]].stages[st[2]].fireIteration =
                          s.resources[r].consumption_tracker.iteration]
  IN  UNION { ScheduleExecNext(s2, r) : s2 \in StageCompleted(s1, st[1]) }

\* Resource._on_execution_completed, ResourceStage.on_complete
OnExecutionCompleted(s, r, st) ==
  LET s1 == [s EXCEPT !.resources[r].count = @ - 1,
                      !.requests[st[1]].stages[st[2]].completion = now(s),
                      !.requests[st[1]].stages[st[2]].fired = @ + 1,
                      !.requests[st[1]].stages[st[2]].fireIteration =
                          s.resources[r].consumption_tracker.iteration]
  IN  UNION { ScheduleExecNext(s2, r) : s2 \in StageCompleted(s1, st[1]) }

(***************************************************************************)
(* VirtualTimeConsumptionTracker: resources[r].consumption_tracker holds   *)
(* t, vt, ongoing and iteration; an entry of ongoing is the tuple          *)
(* (finish_vt, partial(_on_execution_completed, stage)).                   *)
(***************************************************************************)
Tracker(s, r) == s.resources[r].consumption_tracker

\* _advance_to_now sharing the capacity with the unit that is about to join
AdvanceToNowAfterJoin(s, r) ==
  IF Len(Tracker(s, r).ongoing) = 0
  THEN [s EXCEPT !.resources[r].consumption_tracker.t = now(s),
                 !.resources[r].consumption_tracker.vt = Zero]
  ELSE [s EXCEPT !.resources[r].consumption_tracker.vt =
                    RAdd(@, RMul(RSub(now(s), Tracker(s, r).t),
                                 RDiv(Num(s.cfg.capacity[r]),
                                      Num(Len(Tracker(s, r).ongoing) + 1)))),
                 !.resources[r].consumption_tracker.t = now(s)]

\* VirtualTimeConsumptionTracker._advance_to_now
AdvanceToNow(s, r) ==
  IF Len(Tracker(s, r).ongoing) = 0
  THEN [s EXCEPT !.resources[r].consumption_tracker.t = now(s),
                 !.resources[r].consumption_tracker.vt = Zero]
  ELSE [s EXCEPT !.resources[r].consumption_tracker.vt =
                    RAdd(@, RMul(RSub(now(s), Tracker(s, r).t),
                                 RDiv(Num(s.cfg.capacity[r]),
                                      Num(Len(Tracker(s, r).ongoing))))),
                 !.resources[r].consumption_tracker.t = now(s)]

\* _schedule_next_completion that keeps the iteration it finds
ScheduleNextCompletionSameIteration(s, r) ==
  IF Len(Tracker(s, r).ongoing) > 0
  THEN LET finish_vt == Tracker(s, r).ongoing[1].finish_vt
           delta_t == RMul(RSub(finish_vt, Tracker(s, r).vt),
                           RDiv(Num(Len(Tracker(s, r).ongoing)),
                                Num(s.cfg.capacity[r])))
       IN  Schedule(s, delta_t, RESOURCE_EXEC_COMPLETE,
                    Callback("_check_completions_callback", r,
                             Tracker(s, r).iteration, finish_vt))
  ELSE {s}

\* VirtualTimeConsumptionTracker._schedule_next_completion
ScheduleNextCompletion(s, r) ==
  IF Len(Tracker(s, r).ongoing) > 0
  THEN LET s1 == [s EXCEPT !.resources[r].consumption_tracker.iteration = @ + 1]
           finish_vt == Tracker(s1, r).ongoing[1].finish_vt
           delta_t == RMul(RSub(finish_vt, Tracker(s1, r).vt),
                           RDiv(Num(Len(Tracker(s1, r).ongoing)),
                                Num(s1.cfg.capacity[r])))
       IN  Schedule(s1, delta_t, RESOURCE_EXEC_COMPLETE,
                    Callback("_check_completions_callback", r,
                             Tracker(s1, r).iteration, finish_vt))
  ELSE {s}

\* list.sort of the (finish_vt, callback) tuples whose finish_vt all differ
RECURSIVE SortOngoing(_)
SortOngoing(ongoing) ==
  IF Len(ongoing) <= 1 THEN ongoing
  ELSE LET x == ongoing[Len(ongoing)]
           rest == SortOngoing(SubSeq(ongoing, 1, Len(ongoing) - 1))
       IN  SelectSeq(rest, LAMBDA e : RLt(e.finish_vt, x.finish_vt)) \o <<x>> \o
           SelectSeq(rest, LAMBDA e : ~RLt(e.finish_vt, x.finish_vt))

\* two tuples of equal finish_vt: Python goes on to compare the callbacks, and
\* functools.partial objects have no order (TypeError)
SortRaises(ongoing) ==
  \E a, b \in 1..Len(ongoing) : a # b /\ ongoing[a].finish_vt = ongoing[b].finish_vt

\* VirtualTimeConsumptionTracker.add
Add(s, r, quantity, st) ==
  LET s1 == AdvanceToNow(s, r)
      finish_vt == RAdd(Tracker(s1, r).vt, quantity)
      appended == Append(Tracker(s1, r).ongoing, [finish_vt |-> finish_vt, st |-> st])
      s2 == [s1 EXCEPT !.requests[st[1]].stages[st[2]].idle =
                           (Len(Tracker(s, r).ongoing) = 0),
                       !.requests[st[1]].stages[st[2]].addIteration =
                           Tracker(s, r).iteration + 1]
  IN  IF SortRaises(appended)
      THEN {[s2 EXCEPT !.resources[r].consumption_tracker.ongoing = appended,
                       !.err = "TypeError"]}
      ELSE ScheduleNextCompletion(
             [s2 EXCEPT !.resources[r].consumption_tracker.ongoing =
                            SortOngoing(appended)], r)

\* VirtualTimeConsumptionTracker._check_for_completions
RECURSIVE CheckForCompletions(_, _)
CheckForCompletions(s, r) ==
  IF /\ Len(Tracker(s, r).ongoing) > 0
     /\ RLe(Tracker(s, r).ongoing[1].finish_vt, Tracker(s, r).vt)
  THEN UNION { CheckForCompletions(s2, r) :
                 s2 \in OnExecutionCompleted(
                          [s EXCEPT !.resources[r].consumption_tracker.ongoing = Tail(@)],
                          r, Tracker(s, r).ongoing[1].st) }
  ELSE {s}

\* _check_completions_callback without the test of the iteration
CheckCompletionsCallbackUnfenced(s, r, iteration, callback_vt) ==
  UNION { ScheduleNextCompletion(s2, r) :
            s2 \in CheckForCompletions(
                     [s EXCEPT !.resources[r].consumption_tracker.t = now(s),
                               !.resources[r].consumption_tracker.vt = callback_vt],
                     r) }

\* VirtualTimeConsumptionTracker._check_completions_callback
CheckCompletionsCallback(s, r, iteration, callback_vt) ==
  IF Tracker(s, r).iteration = iteration
  THEN UNION { ScheduleNextCompletion(s2, r) :
                 s2 \in CheckForCompletions(
                          [s EXCEPT !.resources[r].consumption_tracker.t = now(s),
                                    !.resources[r].consumption_tracker.vt = callback_vt],
                          r) }
  ELSE {s}

(***************************************************************************)
(* Resource._exec_next and                                                 *)
(* FixedConcurrencyAdmissionControl._admit_if_possible.                    *)
(***************************************************************************)
\* _exec_next with `<=` for `<` in the test of count
RECURSIVE ExecNextOffByOne(_, _)
ExecNextOffByOne(s, r) ==
  IF /\ s.err = ""
     /\ s.resources[r].count <= s.cfg.concurrency[r]
     /\ ~FIFOIsEmpty(s.resources[r].queue)
  THEN LET st == FIFODequeue(s.resources[r].queue).item
           s1 == [s EXCEPT !.resources[r].count = @ + 1,
                           !.resources[r].queue = FIFODequeue(@).pending,
                           !.requests[st[1]].stages[st[2]].dequeue = now(s)]
       IN  UNION { ExecNextOffByOne(s2, r) :
                     s2 \in Add(s1, r, s1.requests[st[1]].stages[st[2]].quantity, st) }
  ELSE {s}

RECURSIVE ExecNext(_, _)
ExecNext(s, r) ==
  IF /\ s.err = ""
     /\ s.resources[r].count < s.cfg.concurrency[r]
     /\ ~FIFOIsEmpty(s.resources[r].queue)
  THEN LET st == FIFODequeue(s.resources[r].queue).item
           s1 == [s EXCEPT !.resources[r].count = @ + 1,
                           !.resources[r].queue = FIFODequeue(@).pending,
                           !.requests[st[1]].stages[st[2]].dequeue = now(s)]
       IN  UNION { ExecNext(s2, r) :
                     s2 \in Add(s1, r, s1.requests[st[1]].stages[st[2]].quantity, st) }
  ELSE {s}

\* _admit_if_possible without the test of count
RECURSIVE AdmitIfPossibleNoLimit(_)
AdmitIfPossibleNoLimit(s) ==
  IF ~FIFOIsEmpty(s.admissioncontrol.queue)
  THEN LET id == FIFODequeue(s.admissioncontrol.queue).item
           s1 == [s EXCEPT !.admissioncontrol.queue = FIFODequeue(@).pending,
                           !.admissioncontrol.count = @ + 1]
       IN  UNION { AdmitIfPossibleNoLimit(s2) : s2 \in Admitted(s1, id) }
  ELSE {s}

RECURSIVE AdmitIfPossible(_)
AdmitIfPossible(s) ==
  IF /\ s.admissioncontrol.count < s.cfg.limit
     /\ ~FIFOIsEmpty(s.admissioncontrol.queue)
  THEN LET id == FIFODequeue(s.admissioncontrol.queue).item
           s1 == [s EXCEPT !.admissioncontrol.queue = FIFODequeue(@).pending,
                           !.admissioncontrol.count = @ + 1]
       IN  UNION { AdmitIfPossible(s2) : s2 \in Admitted(s1, id) }
  ELSE {s}

(***************************************************************************)
(* The state after the set-up code: the objects as their constructors      *)
(* leave them, then every ClosedLoopWorkload.__init__ in turn.             *)
(***************************************************************************)
Constructed(c) ==
  [cfg |-> c,
   q |-> [events |-> {}, i |-> 0, t |-> Zero],
   admissioncontrol |-> [count |-> 0, queue |-> <<>>],
   requests |-> <<>>,
   resources |-> [r \in Resources |->
                    [count |-> 0, queue |-> <<>>,
                     consumption_tracker |->
                       [t |-> Zero, vt |-> Zero, ongoing |-> <<>>, iteration |-> 0]]],
   err |-> "",
   log |-> <<>>]

\* ClosedLoopWorkload.__init__: concurrency calls of start_next_request
RECURSIVE StartRequests(_, _, _)
StartRequests(S, w, n) ==
  IF n = 0 THEN S
  ELSE StartRequests(UNION { StartNextRequest(s, w) : s \in S }, w, n - 1)

RECURSIVE ConstructWorkloads(_, _, _)
ConstructWorkloads(S, c, w) ==
  IF w > Len(c.workloads) THEN S
  ELSE ConstructWorkloads(StartRequests(S, w, c.workloads[w].concurrency), c, w + 1)

NoEvent == Event(Zero, 0, 0 - 1, Callback("", "", 0, None))

Init ==
  \E c \in Setups :
    \E s \in ConstructWorkloads({Constructed(c)}, c, 1) :
      /\ cfg = s.cfg
      /\ q = s.q
      /\ admissioncontrol = s.admissioncontrol
      /\ requests = s.requests
      /\ resources = s.resources
      /\ err = s.err
      /\ log = s.log
      /\ popped = [event |-> NoEvent, i |-> 0, stale |-> FALSE]

(***************************************************************************)
(* The driver loop, `q.advance()()`: one action per kind of callback that  *)
(* q.advance() can return.  The program has ended once an exception has    *)
(* escaped (err).                                                          *)
(***************************************************************************)
\* the event on top of the heap is a completion of a superseded iteration
Stale ==
  /\ q.events # {}
  /\ HeapTop(q.events).callback.kind = "_check_completions_callback"
  /\ HeapTop(q.events).callback.iteration #
       resources[HeapTop(q.events).callback.r].consumption_tracker.iteration

Becomes(s) ==
  /\ cfg' = s.cfg
  /\ q' = s.q
  /\ admissioncontrol' = s.admissioncontrol
  /\ requests' = s.requests
  /\ resources' = s.resources
  /\ err' = s.err
  /\ log' = s.log
  /\ popped' = [event |-> HeapTop(q.events), i |-> q.i, stale |-> Stale]

Returns(kind) ==
  /\ err = ""
  /\ q.events # {}
  /\ HeapTop(q.events).callback.kind = kind

AdmitNext ==
  /\ Returns("_admit_if_possible")
  /\ \E s \in AdmitIfPossible(Advance(State)) : Becomes(s)

ResourceExecNext ==
  /\ Returns("_exec_next")
  /\ \E s \in ExecNext(Advance(State), HeapTop(q.events).callback.r) : Becomes(s)

ResourceExecComplete ==
  /\ Returns("_check_completions_callback")
  /\ LET callback == HeapTop(q.events).callback
     IN  \E s \in CheckCompletionsCallback(Advance(State), callback.r,
                                           callback.iteration, callback.callback_vt) :
           Becomes(s)

\* q.advance() on an empty heap: heapq.heappop raises IndexError
AdvanceEmpty ==
  /\ err = ""
  /\ q.events = {}
  /\ err' = "IndexError"
  /\ UNCHANGED <<cfg, q, admissioncontrol, requests, resources, log, popped>>

Next == AdmitNext \/ ResourceExecNext \/ ResourceExecComplete \/ AdvanceEmpty

Spec == Init /\ [][Next]_vars

(***************************************************************************)
(* Properties.                                                             *)
(***************************************************************************)
Fixed == cfg.admission = "FixedConcurrencyAdmissionControl"

\* the stages <<id, ix>> of the requests made so far
Stages == { st \in (1..Len(requests)) \X (1..2) : st[2] <= Len(requests[st[1]].stages) }

Stage(st) == requests[st[1]].stages[st[2]]

\* a comes before b in (fire_time, priority, sequence) order
Before(a, b) ==
  IF a.t # b.t THEN RLt(a.t, b.t)
  ELSE IF a.priority # b.priority THEN a.priority < b.priority
  ELSE a.i < b.i

\* C1: the event that advance() returned comes, in the lexicographic order of
\* (fire_time, priority, sequence), before every event that was pending at that
\* call and is pending still: advance() returns the pending events by
\* non-decreasing fire_time, then non-decreasing priority, then schedule order.
C1_AdvanceOrder ==
  popped.event # NoEvent =>
    \A e \in q.events : e.i < popped.i => Before(popped.event, e)

\* C1 witness: advance() has returned an event while a later-scheduled event of
\* the same fire_time and priority, and an event of the same fire_time and a
\* higher priority number, were pending.
C1_Witness ==
  /\ popped.event # NoEvent
  /\ \E e \in q.events : /\ e.i < popped.i
                         /\ e.t = popped.event.t
                         /\ e.priority = popped.event.priority
  /\ \E e \in q.events : /\ e.i < popped.event.i
                         /\ e.t = popped.event.t
                         /\ e.priority > popped.event.priority

\* C2: the clock q.t never decreases.
C2_ClockMonotone == [][RLe(q.t, q'.t)]_vars

\* the requests that have been admitted and have not completed
Executing == { id \in 1..Len(requests) :
                 requests[id].admitted # None /\ requests[id].completion = None }

\* C3: under FixedConcurrencyAdmissionControl the number of requests admitted
\* and not yet completed never exceeds the limit.
C3_AdmissionLimit == Fixed => Cardinality(Executing) <= cfg.limit

\* C3 witness: the limit is reached while a request waits for admission, after
\* a request has completed and its replacement has begun.
C3_Witness ==
  /\ Fixed
  /\ Cardinality(Executing) = cfg.limit
  /\ ~FIFOIsEmpty(admissioncontrol.queue)
  /\ \E id \in 1..Len(requests) : requests[id].completion # None

\* the stages in service at r: dequeued by _exec_next, not yet passed to
\* _on_execution_completed
InService(r) == { st \in Stages : /\ Stage(st).resource = r
                                  /\ Stage(st).dequeue # None
                                  /\ Stage(st).fired = 0 }

\* C4: at every Resource the number of stages in service never exceeds the
\* concurrency limit, and count stays within 0..concurrency.
C4_ResourceConcurrency ==
  \A r \in Resources :
    /\ Cardinality(InService(r)) <= cfg.concurrency[r]
    /\ resources[r].count \in 0..cfg.concurrency[r]

\* C4 witness: a resource serves as many stages as its concurrency allows
\* while another stage waits in its queue.
C4_Witness ==
  \E r \in Resources :
    /\ Cardinality(InService(r)) = cfg.concurrency[r]
    /\ ~FIFOIsEmpty(resources[r].queue)
    /\ \E st \in Stages : Stage(st).resource = r /\ Stage(st).fired = 1

\* C5: no completion callback is invoked more than once, and a completion event
\* of a superseded iteration is a no-op: it changes neither the tracker (vt,
\* ongoing), nor any other object, nor the pending events other than itself.
C5_NoDoubleFire ==
  [][/\ \A id \in 1..Len(requests') : \A ix \in 1..Len(requests'[id].stages) :
          requests'[id].stages[ix].fired <= 1
     /\ Stale => /\ resources' = resources
                 /\ requests' = requests
                 /\ admissioncontrol' = admissioncontrol
                 /\ log' = log
                 /\ err' = err
                 /\ q'.i = q.i
                 /\ q'.events = q.events \ {HeapTop(q.events)}]_vars

\* C5 witness: a completion event has fired after its iteration was superseded
\* at least twice, at a tracker that has completed a stage and serves another.
C5_Witness ==
  /\ popped.stale
  /\ LET tracker == resources[popped.event.callback.r].consumption_tracker
     IN  /\ tracker.iteration >= popped.event.callback.iteration + 2
         /\ Len(tracker.ongoing) > 0
  /\ \E st \in Stages : /\ Stage(st).resource = popped.event.callback.r
                        /\ Stage(st).fired = 1

\* the stage was added to an idle tracker and nothing was added before the
\* completion event of its own add completed it
Alone(st) ==
  /\ Stage(st).fired >= 1
  /\ Stage(st).idle
  /\ Stage(st).addIteration = Stage(st).fireIteration

\* C6: a unit of quantity q added alone to an idle tracker of capacity C at time
\* t0 has its completion callback invoked when the clock is exactly t0 + q/C.
C6_SingleUnitDelay ==
  \A st \in Stages :
    Alone(st) =>
      Stage(st).completion =
        RAdd(Stage(st).dequeue,
             RDiv(Stage(st).quantity, Num(cfg.capacity[Stage(st).resource])))

\* b was added to the tracker at the instant at which a was added to the idle
\* tracker, right after it, with the same quantity
AddedTogether(a, b) ==
  /\ a # b
  /\ Stage(a).resource = Stage(b).resource
  /\ Stage(a).quantity = Stage(b).quantity
  /\ Stage(a).dequeue # None
  /\ Stage(a).dequeue = Stage(b).dequeue
  /\ Stage(a).idle
  /\ Stage(b).addIteration = Stage(a).addIteration + 1

\* C7: two units of equal quantity q added at the same instant t0 to an idle
\* tracker of capacity C both have their callbacks invoked (the program goes on,
\* and neither is completed without the other), when the clock is t0 + 2q/C.
C7_FairShare ==
  \A a, b \in Stages :
    AddedTogether(a, b) =>
      /\ err = ""
      /\ (Stage(a).fired >= 1 \/ Stage(b).fired >= 1) =>
           /\ Stage(a).fired = 1
           /\ Stage(b).fired = 1
           /\ Stage(a).completion =
                RAdd(Stage(a).dequeue,
                     RDiv(RMul(Num(2), Stage(a).quantity),
                          Num(cfg.capacity[Stage(a).resource])))
           /\ Stage(b).completion = Stage(a).completion

\* C8: when _exec_next adds a unit to a tracker that has units ongoing, every
\* ongoing unit is still ongoing and its remaining virtual work, finish_vt - vt,
\* is after the add what it was before it with vt brought to the current clock
\* at the rate capacity / N of the N units that were ongoing.
C8_JoinMidFlight ==
  [][Returns("_exec_next") =>
       LET r == HeapTop(q.events).callback.r
           before == resources[r].consumption_tracker
           after == resources'[r].consumption_tracker
           N == Len(before.ongoing)
           synced == RAdd(before.vt,
                          RMul(RSub(q'.t, before.t),
                               RDiv(Num(cfg.capacity[r]), Num(N))))
       IN  (N > 0 /\ resources'[r].count > resources[r].count) =>
             \A k \in 1..N :
               \E m \in 1..Len(after.ongoing) :
                 /\ after.ongoing[m].st = before.ongoing[k].st
                 /\ RSub(after.ongoing[m].finish_vt, after.vt) =
                      RSub(before.ongoing[k].finish_vt, synced)]_vars

\* C8 witness: _exec_next has just added a unit to a tracker on which an earlier
\* unit has made part of its progress: its remaining virtual work is more than
\* nothing and less than its quantity.
C8_Witness ==
  /\ popped.event.callback.kind = "_exec_next"
  /\ LET tracker == resources[popped.event.callback.r].consumption_tracker
     IN  /\ tracker.t = q.t
         /\ \E a, b \in 1..Len(tracker.ongoing) :
              /\ Stage(tracker.ongoing[b].st).dequeue = q.t
              /\ ~Stage(tracker.ongoing[b].st).idle
              /\ RLt(Stage(tracker.ongoing[a].st).dequeue, q.t)
              /\ RLt(Zero, RSub(tracker.ongoing[a].finish_vt, tracker.vt))
              /\ RLt(RSub(tracker.ongoing[a].finish_vt, tracker.vt),
                     Stage(tracker.ongoing[a].st).quantity)

\* C9: one resource of capacity 100 and concurrency 1, no admission control, two
\* requests of one stage of 50 begun at t = 0: the first completes at t = 0.5,
\* the second is not dequeued before t = 0.5 and completes at t = 1.0.
C9_QueueingScenario ==
  ( /\ cfg.admission = "NoAdmissionControl"
    /\ cfg.capacity["cpu"] = 100
    /\ cfg.concurrency["cpu"] = 1
    /\ cfg.workloads = <<Workload(<< <<"cpu", 50>> >>, 2)>> ) =>
      /\ requests[1].completion # None => requests[1].completion = <<1, 2>>
      /\ Stage(<<2, 1>>).dequeue # None => RLe(<<1, 2>>, Stage(<<2, 1>>).dequeue)
      /\ requests[2].completion # None => requests[2].completion = <<1, 1>>

\* the request ids of the entries of log of one kind, in order
Logged(kind) ==
  LET entries == SelectSeq(log, LAMBDA e : e[1] = kind)
  IN  [k \in 1..Len(entries) |-> entries[k][2]]

\* C10: under FixedConcurrencyAdmissionControl with a FIFO queue the requests are
\* admitted in the order in which they began (the order of their ids); with
\* limit 1 they also complete in that order, and each request after the first
\* is admitted only once the request before it has completed.
C10_AdmissionOrder ==
  Fixed =>
    /\ \A k \in 1..Len(Logged("Admit")) : Logged("Admit")[k] = k
    /\ cfg.limit = 1 =>
         /\ \A k \in 1..Len(Logged("Finish")) : Logged("Finish")[k] = k
         /\ \A id \in 2..Len(requests) :
              requests[id].admitted # None =>
                /\ requests[id - 1].completion # None
                /\ RLe(requests[id - 1].completion, requests[id].admitted)

\* C10 witness: with limit 1, three requests of one zero-quantity stage have
\* been admitted and have completed.
C10_Witness ==
  /\ Fixed
  /\ cfg.limit = 1
  /\ cfg.workloads = <<Workload(<< <<"cpu", 0>> >>, 3)>>
  /\ Logged("Finish") = <<1, 2, 3>>

\* a Resource or tracker of capacity <= 0, or a Resource or admission control
\* of concurrency <= 0, has been constructed
NonPositive ==
  \/ \E r \in Resources : cfg.capacity[r] <= 0 \/ cfg.concurrency[r] <= 0
  \/ Fixed /\ cfg.limit <= 0

\* C11: constructing a Resource, a tracker or a FixedConcurrencyAdmissionControl
\* with a capacity or concurrency <= 0 ends the program with an error at
\* construction, before any request begins: no other state holds such an object.
C11_ConstructionRejected ==
  NonPositive => /\ err # ""
                 /\ requests = <<>>
                 /\ popped.event = NoEvent

\* the schedule() call that made the pending event e: <<"Schedule", i, clock,
\* delta_t, priority>>
ScheduleCall(e) == CHOOSE c \in { log[k] : k \in 1..Len(log) } :
                     c[1] = "Schedule" /\ c[2] = e.i

\* C12: schedule() can run with its jitter disabled, and then an event scheduled
\* with delay d when the clock is t has fire_time exactly t + d; the jitter it
\* adds is never negative. The code has one way of scheduling, so every pending
\* event is held to it.
C12_JitterDisabled ==
  \A e \in q.events :
    /\ RLe(RAdd(ScheduleCall(e)[3], ScheduleCall(e)[4]), e.t)
    /\ e.t = RAdd(ScheduleCall(e)[3], ScheduleCall(e)[4])

\* the requests of workload w that have begun and have not completed
Outstanding(w) == { id \in 1..Len(requests) : /\ requests[id].workload = w
                                               /\ requests[id].arrival # None
                                               /\ requests[id].completion = None }

\* C13: every ClosedLoopWorkload of concurrency k has exactly k requests begun
\* and not completed; each complete() starts exactly one request: the n-th
\* request to complete is replaced by the n-th request made after construction,
\* of the same workload, begun at the instant of that completion.
C13_ClosedLoop ==
  /\ \A w \in 1..Len(cfg.workloads) :
       Cardinality(Outstanding(w)) = cfg.workloads[w].concurrency
  /\ LET finished == Logged("Finish")
         made == Len(requests) - Len(finished)
     IN  /\ made >= 0
         /\ \A n \in 1..Len(finished) :
              /\ requests[made + n].workload = requests[finished[n]].workload
              /\ requests[made + n].arrival = requests[finished[n]].completion

\* C13 witness: two workloads share a resource, a request of each has completed,
\* and a replacement has completed in its turn.
C13_Witness ==
  /\ Len(cfg.workloads) = 2
  /\ \A w \in 1..2 : \E id \in 1..Len(requests) : /\ requests[id].workload = w
                                                  /\ requests[id].completion # None
  /\ \E n \in 1..Len(Logged("Finish")) :
       Logged("Finish")[n] > Len(requests) - Len(Logged("Finish"))

\* the number of entries of the sequence seq that equal x
Occurrences(seq, x) == Cardinality({ k \in 1..Len(seq) : seq[k] = x })

\* C14: a request runs its stages in index order, one at a time: the stages
\* enqueued are those up to the first unfinished one, stage i+1 is enqueued in
\* the completion hook of stage i (at its completion instant, after it fired,
\* once), at most one stage is queued or in service, and the request calls
\* admission_control.completed and complete() exactly once, in the completion
\* hook of its last stage, and not before.
C14_StageOrder ==
  \A id \in 1..Len(requests) :
    LET request == requests[id]
        n == Len(request.stages)
    IN  /\ request.done \in 0..n
        /\ \A ix \in 1..n :
             /\ request.stages[ix].fired = (IF ix <= request.done THEN 1 ELSE 0)
             /\ request.stages[ix].enqueue # None <=>
                  (request.admitted # None /\ ix <= request.done + 1)
             /\ (ix > 1 /\ request.stages[ix].enqueue # None) =>
                  request.stages[ix].enqueue = request.stages[ix - 1].completion
        /\ Cardinality({ ix \in 1..n : /\ request.stages[ix].enqueue # None
                                       /\ request.stages[ix].fired = 0 }) <= 1
        /\ request.completion # None <=> request.done = n
        /\ request.completion # None => request.completion = request.stages[n].completion
        /\ Occurrences(Logged("Finish"), id) = (IF request.done = n THEN 1 ELSE 0)
        /\ Occurrences(Logged("Completed"), id) = (IF request.done = n THEN 1 ELSE 0)

\* C14 witness: a request of two stages, at two resources, has completed.
C14_Witness ==
  \E id \in 1..Len(requests) :
    /\ Len(requests[id].stages) = 2
    /\ requests[id].stages[1].resource # requests[id].stages[2].resource
    /\ requests[id].completion # None

\* C15: at every Resource count is the number of entries of the ongoing list of
\* its tracker, and the entries are the stages in service there.
C15_CountIsOngoing ==
  \A r \in Resources :
    LET ongoing == resources[r].consumption_tracker.ongoing
    IN  /\ resources[r].count = Len(ongoing)
        /\ { ongoing[k].st : k \in 1..Len(ongoing) } = InService(r)

\* C15 witness: a resource that has completed a stage has two units ongoing.
C15_Witness ==
  \E r \in Resources :
    /\ resources[r].count = 2
    /\ Len(resources[r].consumption_tracker.ongoing) = 2
    /\ \E st \in Stages : Stage(st).resource = r /\ Stage(st).fired = 1

\* C16: every delay that _schedule_next_completion passes to schedule() is >= 0:
\* when a handler has rescheduled, vt is not beyond the finish_vt of any ongoing
\* unit; and a completion event that fires does not move vt backwards.
C16_NonNegativeDelay ==
  [][/\ \A k \in (Len(log) + 1)..Len(log') :
          (log'[k][1] = "Schedule" /\ log'[k][5] = RESOURCE_EXEC_COMPLETE) =>
            RLe(Zero, log'[k][4])
     /\ \A r \in Resources :
          \A k \in 1..Len(resources'[r].consumption_tracker.ongoing) :
            RLe(resources'[r].consumption_tracker.vt,
                resources'[r].consumption_tracker.ongoing[k].finish_vt)
     /\ (Returns("_check_completions_callback") /\ ~Stale) =>
          LET r == HeapTop(q.events).callback.r
          IN  RLe(resources[r].consumption_tracker.vt,
                  resources'[r].consumption_tracker.vt)]_vars

\* the pending completion events of resource r that carry the iteration of its
\* tracker
Live(r) == { e \in q.events : /\ e.callback.kind = "_check_completions_callback"
                              /\ e.callback.r = r
                              /\ e.callback.iteration =
                                   resources[r].consumption_tracker.iteration }

\* C17: if the ongoing list of a tracker is not empty, exactly one pending
\* completion event carries the tracker's iteration, and the finish_vt it
\* captured is the least finish_vt of the ongoing entries; if the list is empty,
\* no pending completion event carries the tracker's iteration.
C17_SingleLiveCompletion ==
  \A r \in Resources :
    LET ongoing == resources[r].consumption_tracker.ongoing
    IN  IF Len(ongoing) > 0
        THEN /\ Cardinality(Live(r)) = 1
             /\ \A e \in Live(r) :
                  /\ \E k \in 1..Len(ongoing) : e.callback.callback_vt = ongoing[k].finish_vt
                  /\ \A k \in 1..Len(ongoing) :
                       RLe(e.callback.callback_vt, ongoing[k].finish_vt)
        ELSE Live(r) = {}

\* C17 witness: a tracker that has completed a unit has two units ongoing and,
\* besides the event of its iteration, a completion event of a superseded
\* iteration pending.
C17_Witness ==
  \E r \in Resources :
    /\ Len(resources[r].consumption_tracker.ongoing) = 2
    /\ \E st \in Stages : Stage(st).resource = r /\ Stage(st).fired = 1
    /\ \E e \in q.events \ Live(r) : /\ e.callback.kind = "_check_completions_callback"
                                     /\ e.callback.r = r

\* a pending event of the kind of callback, of resource r ("" for none)
Pending(kind, r) == \E e \in q.events : e.callback.kind = kind /\ e.callback.r = r

\* C18: if the queue of a Resource is not empty and its count is below its
\* concurrency, a RESOURCE_EXEC_NEXT event of that resource is pending; if the
\* queue of a FixedConcurrencyAdmissionControl is not empty and its count is
\* below its limit, an ADMIT_NEXT event is pending.
C18_NoLostWakeup ==
  /\ \A r \in Resources :
       (~FIFOIsEmpty(resources[r].queue) /\ resources[r].count < cfg.concurrency[r]) =>
         Pending("_exec_next", r)
  /\ (Fixed /\ ~FIFOIsEmpty(admissioncontrol.queue)
            /\ admissioncontrol.count < cfg.limit) =>
       Pending("_admit_if_possible", "")

\* C18 witness: a stage waits at a resource that a completion has just left
\* with room, and a request waits for an admission control that a completion
\* has just left with room.
C18_Witness ==
  /\ popped.event.callback.kind = "_check_completions_callback"
  /\ \E r \in Resources : /\ ~FIFOIsEmpty(resources[r].queue)
                          /\ resources[r].count < cfg.concurrency[r]
  /\ Fixed
  /\ ~FIFOIsEmpty(admissioncontrol.queue)
  /\ admissioncontrol.count < cfg.limit

\* the admission limit and every resource concurrency are at least 1, and a
\* workload of concurrency at least 1 makes requests of at least one stage
WellConfigured ==
  /\ Fixed => cfg.limit >= 1
  /\ \A r \in Resources : cfg.concurrency[r] >= 1
  /\ \E w \in 1..Len(cfg.workloads) : /\ cfg.workloads[w].concurrency >= 1
                                      /\ Len(cfg.workloads[w].stages) >= 1

\* C19: in a well-configured set-up the heap of events is never empty when the
\* driver loop calls q.advance(), and advance() never raises IndexError.
C19_NoExhaustion ==
  WellConfigured => /\ q.events # {}
                    /\ err # "IndexError"

\* C19 witness: in a well-configured set-up a request has completed and its
\* replacement has begun, and a single event is pending.
C19_Witness ==
  /\ WellConfigured
  /\ \E id \in 1..Len(requests) : requests[id].completion # None
  /\ Cardinality(q.events) = 1

\* C20: while the driver loop keeps popping, every request that has begun is
\* admitted and completes, and every stage that is enqueued is dequeued and has
\* its completion callback invoked: in a well-configured set-up of positive
\* capacities the driver loop does not end, on an exception, with a request
\* begun and not completed or a stage enqueued and not completed.
C20_Progress ==
  (WellConfigured /\ \A r \in Resources : cfg.capacity[r] > 0) =>
    (err # "" =>
       /\ \A id \in 1..Len(requests) :
            requests[id].arrival # None =>
              requests[id].admitted # None /\ requests[id].completion # None
       /\ \A st \in Stages :
            Stage(st).enqueue # None => Stage(st).dequeue # None /\ Stage(st).fired = 1)
====
